---- MODULE Spec2Model ----
(***************************************************************************)
(* A model of the DNUDS sampling engine: the five samplers of              *)
(* dnuds/sampling (random reservoir, stratified, time-aware, outlier-aware *)
(* and the composite chain) and the orchestrator dnuds/core.sample_file.   *)
(*                                                                         *)
(* A row is identified by its position in the input (Python object         *)
(* identity); its contents are looked up in `input`.  Every call on the    *)
(* sampler's random.Random is one nondeterministic choice over the results *)
(* the call can return, expressed in positions of its argument.            *)
(***************************************************************************)
EXTENDS Integers, Sequences, FiniteSets, TLC

\* ------------------------------------------------------------------ bounds
MaxRows == 4
MaxTarget == 3
MaxRowsCount == 5
MaxTargetCount == 4
MaxRowsTime == 4
MaxTargetTime == 3
MaxRowsOutlier == 4
MaxTargetOutlier == 3
MaxRowsStrat == 4
MaxTargetStrat == 4
MaxRowsSeeded == 3
MaxTargetSeeded == 2

\* ------------------------------------------------------------------ values
\* A value of a row: None, a native integer, or text (dnuds rows are
\* Dict[str, Any]).  One record shape for all three, so that values compare.
Null == [t |-> "null", s |-> "", n |-> 0]
IntVal(i) == [t |-> "int", s |-> "", n |-> i]
TextVal(x) == [t |-> "str", s |-> x, n |-> 0]

\* float(text) on the texts of the model: decimal literals parse to their
\* number, "nan" parses to the IEEE not-a-number, anything else raises
\* ValueError.
DecimalText == ("0" :> 0) @@ ("1" :> 1) @@ ("2" :> 2) @@ ("3" :> 3) @@ ("4" :> 4) @@ ("5" :> 5)
NotParsed == [ok |-> FALSE, nan |-> FALSE, val |-> 0]
Float(i) == [ok |-> TRUE, nan |-> FALSE, val |-> i]
NaN == [ok |-> TRUE, nan |-> TRUE, val |-> 0]
FloatOfText(x) ==
    IF x \in DOMAIN DecimalText THEN Float(DecimalText[x])
    ELSE IF x = "nan" THEN NaN
    ELSE NotParsed

\* IEEE comparison: every comparison with a NaN is false.
FloatLess(a, b) == ~a.nan /\ ~b.nan /\ a.val < b.val

\* str(value) of a native integer of the model.
IntText ==
    (0 :> "0") @@ (1 :> "1") @@ (2 :> "2") @@ (3 :> "3") @@ (4 :> "4") @@ (5 :> "5") @@
    (6 :> "6") @@ (7 :> "7") @@ (8 :> "8") @@ (9 :> "9")

Columns == <<"k", "v">>
NoSeed == -1

\* ------------------------------------------------------------------ state
VARIABLES
    config,          \* SamplerConfig: sampling_mode, target_rows, key_columns,
                     \* privacy_rules, seed
    input,           \* the rows the reader yields, in arrival order
    hashOf,          \* this process's hash() of each non-numeric text
    chain,           \* the samplers _get_sampler built, in order
    stage,           \* the sampler of the chain that is running
    upstream,        \* the rows (ids) the running sampler receives, in order
    pc,              \* where the running sampler is
    count,           \* RandomSampler.sample: rows consumed
    reservoir,       \* RandomSampler.sample: the reservoir
    all_rows,        \* TimeSampler/OutlierSampler.sample: the materialised rows
    sampled,         \* TimeSampler/StratifiedSampler.sample: rows chosen so far
    remaining,       \* TimeSampler.sample: leftover of target_size over 3
    outlier_rows,    \* OutlierSampler.sample: outliers, then the whole sample
    category_rows,   \* StratifiedSampler.sample: the rows of each category, by key
    cat_idx,         \* StratifiedSampler.sample: first-pass loop position
    remaining_target,    \* StratifiedSampler.sample
    category_capacities, \* StratifiedSampler.sample: capacity per category (0: no entry)
    out,             \* the rows the whole chain yielded
    tape,            \* the calls made on the seeded RNG in this run, with results
    run,             \* 1: first run, 2: the same configuration run again
    prevTape,        \* the first run's tape
    prevOut,         \* the first run's output
    fpc,             \* sample_file: the statement it is at
    format_type,     \* sample_file: the FormatType of the format argument
    reader,          \* sample_file: the reader (its format, whether its file is open)
    writer,          \* sample_file: the writer (its format, whether its file is open)
    output,          \* the output file: created, header written, rows written
    sampled_rows_list,   \* sample_file: the rows buffered for statistics
    row_count,       \* sample_file: rows written
    stats,           \* sample_file: None or what collect_stats returned
    caught,          \* sample_file: the exception its except clause caught
    manifest,        \* the manifest file
    result,          \* the SampleResult sample_file returned
    error            \* the exception sample_file raised

samplerVars == <<config, input, hashOf, chain, stage, upstream, pc, count, reservoir,
                 all_rows, sampled, remaining, outlier_rows, category_rows, cat_idx,
                 remaining_target, category_capacities, out, tape, run, prevTape, prevOut>>

fileVars == <<fpc, format_type, reader, writer, output, sampled_rows_list, row_count,
              stats, caught, manifest, result, error>>

vars == <<samplerVars, fileVars>>

\* A target that shrinks from one sampler of the chain to the next.
target_size_per_stage == config.target_rows + 1 - stage
\* self.target_size = config.target_rows, in every sampler of the chain.
target_size == config.target_rows
N == Len(upstream)
Range(s) == {s[i] : i \in DOMAIN s}

\* ------------------------------------------------------------------ RNG
\* random.Random(seed) is a deterministic generator: with a seed, the same
\* sequence of calls with the same arguments returns the same results in a
\* second run.  A call is recorded by its kind and the sizes it depends on;
\* a result is a sequence of positions.
Call(kind, args) == [kind |-> kind, args |-> args]
Seeded == config.seed # NoSeed
Replayed(t, call) ==
    /\ Seeded
    /\ run = 2
    /\ Len(t) < Len(prevTape)
    /\ prevTape[Len(t) + 1].call = call
Draws(t, call, results) ==
    IF Replayed(t, call) THEN {prevTape[Len(t) + 1].res} ELSE results
Record(t, call, res) ==
    IF Seeded THEN Append(t, [call |-> call, res |-> res]) ELSE t

Min(a, b) == IF a < b THEN a ELSE b
Max(a, b) == IF a > b THEN a ELSE b
\* The longest list any RNG call of the model is given.
MaxN ==
    Max(Max(Max(MaxRows, MaxRowsCount), MaxRowsTime),
        Max(Max(MaxRowsOutlier, MaxRowsStrat), MaxRowsSeeded))

\* rng.sample(population, k): k distinct positions of the population, in
\* selection order.
SampleTable ==
    [n \in 0..MaxN, k \in 0..MaxN |->
        {s \in [1..k -> 1..n] : \A i, j \in 1..k : i # j => s[i] # s[j]}]
SampleResults(n, k) ==
    IF n <= MaxN /\ k <= MaxN THEN SampleTable[n, k]
    ELSE {s \in [1..k -> 1..n] : \A i, j \in 1..k : i # j => s[i] # s[j]}
\* rng.shuffle(list): a permutation of the positions.
ShuffleResults(n) == SampleResults(n, n)
Pick(list, positions) == [i \in 1..Len(positions) |-> list[positions[i]]]
\* list[:n]
WholeList(s, n) == s
Prefix(s, n) == SubSeq(s, 1, IF Len(s) < n THEN Len(s) ELSE n)

\* ------------------------------------------------------------------ chain
\* core._get_sampler: the samplers of a sampling mode.
SamplersOf(mode) ==
    IF mode = "composite" THEN <<"outlier_aware", "time_aware", "random">>
    ELSE <<mode>>

LocalsReset ==
    /\ count' = 0
    /\ reservoir' = <<>>
    /\ all_rows' = <<>>
    /\ sampled' = <<>>
    /\ remaining' = 0
    /\ outlier_rows' = <<>>
    /\ category_rows' = <<>>
    /\ cat_idx' = 0
    /\ remaining_target' = 0
    /\ category_capacities' = <<>>

\* CompositeSampler.sample: the rows a sampler yields feed the next sampler;
\* the last sampler's rows are the result.
Yield(rows) ==
    IF stage < Len(chain)
    THEN /\ stage' = stage + 1
         /\ upstream' = rows
         /\ pc' = chain[stage + 1]
         /\ LocalsReset
         /\ UNCHANGED out
    ELSE /\ out' = rows
         /\ pc' = "done"
         /\ UNCHANGED <<stage, upstream, count, reservoir, all_rows, sampled,
                        remaining, outlier_rows, category_rows, cat_idx,
                        remaining_target, category_capacities>>

fixedVars == <<config, input, hashOf, chain, run, prevTape, prevOut, fileVars>>

\* ------------------------------------------------------------------ random
\* "for row in rows": the p-th row the running sampler receives.
RowAtInput(p) == p
RowAt(p) == upstream[p]

\* What rng.randint(a, b) can return: a <= result <= b.
RandintBelow(a, b) == a..(b - 1)
randint(a, b) == a..b
\* "if index < self.target_size: reservoir[index] = row"
ReplacedAlways(res, index, row) == [res EXCEPT ![(index % Len(res)) + 1] = row]
Replaced(res, index, row) ==
    IF index < target_size THEN [res EXCEPT ![index + 1] = row] ELSE res

\* RandomSampler.sample, one row of the loop.
RandomRow ==
    /\ pc = "random"
    /\ count < N
    /\ LET row == RowAt(count + 1) IN
       IF Len(reservoir) < target_size
       THEN /\ reservoir' = Append(reservoir, row)
            /\ UNCHANGED tape
       ELSE \E index \in Draws(tape, Call("randint", <<count>>),
                               {<<i>> : i \in randint(0, count)}) :
            /\ reservoir' = Replaced(reservoir, index[1], row)
            /\ tape' = Record(tape, Call("randint", <<count>>), index)
    /\ count' = count + 1
    /\ UNCHANGED <<fixedVars, stage, upstream, pc, all_rows, sampled, remaining,
                   outlier_rows, category_rows, cat_idx, remaining_target,
                   category_capacities, out>>

\* RandomSampler.sample, after the loop: the reservoir is yielded in order.
RandomYield ==
    /\ pc = "random"
    /\ count = N
    /\ Yield(reservoir)
    /\ UNCHANGED <<fixedVars, tape>>

\* ------------------------------------------------------------------ time-aware
\* TimeSampler.__init__: the time column is the first key column, if any.
HasTimeColumn == config.key_columns # <<>>
time_column == config.key_columns[1]

\* TimeSampler._get_timestamp_value: a number is its own timestamp, a text is
\* float(text) if that parses and else float(hash(text)); anything else, and
\* every row when there is no time column, has the row index.
TimestampValue(row, row_index) ==
    IF HasTimeColumn /\ row[time_column].t = "int" THEN Float(row[time_column].n)
    ELSE IF HasTimeColumn /\ row[time_column].t = "str"
    THEN IF FloatOfText(row[time_column].s).ok
         THEN FloatOfText(row[time_column].s)
         ELSE Float(hashOf[row[time_column].s])
    ELSE Float(row_index)

\* The timestamp of the row at (1-based) position p of the upstream.
Ts(p) == TimestampValue(input[upstream[p]], p - 1)

\* all_rows.sort(key=timestamp).  list.sort compares keys with < only; on a
\* list this short it takes the longest run at the start (non-descending, or
\* strictly descending and then reversed) and inserts every later element by
\* binary search, after the elements it is not less than.  With keys that <
\* orders this is the stable ascending sort; a NaN key is less than nothing and nothing is less
\* than it.
TsLess(p, q) == FloatLess(Ts(p), Ts(q))
RECURSIVE RunEnd(_, _, _)
RunEnd(seq, n, descending) ==
    IF n < Len(seq) /\ (TsLess(seq[n + 1], seq[n]) = descending)
    THEN RunEnd(seq, n + 1, descending)
    ELSE n
CountRun(seq) ==
    IF Len(seq) <= 1 THEN [n |-> Len(seq), descending |-> FALSE]
    ELSE [n |-> RunEnd(seq, 2, TsLess(seq[2], seq[1])), descending |-> TsLess(seq[2], seq[1])]
RECURSIVE Bisect(_, _, _, _)
Bisect(sorted, pivot, lo, hi) ==
    IF lo < hi
    THEN LET mid == lo + ((hi - lo) \div 2) IN
         IF TsLess(pivot, sorted[mid + 1])
         THEN Bisect(sorted, pivot, lo, mid)
         ELSE Bisect(sorted, pivot, mid + 1, hi)
    ELSE lo
Reversed(seq) == [i \in 1..Len(seq) |-> seq[Len(seq) + 1 - i]]
RECURSIVE BinarySort(_, _, _)
BinarySort(seq, sorted, i) ==
    IF i > Len(seq) THEN sorted
    ELSE LET at == Bisect(sorted, seq[i], 0, Len(sorted)) IN
         BinarySort(seq,
                    SubSeq(sorted, 1, at) \o <<seq[i]>> \o SubSeq(sorted, at + 1, Len(sorted)),
                    i + 1)
ListSort(seq) ==
    LET found == CountRun(seq)
        first == SubSeq(seq, 1, found.n)
    IN BinarySort(seq, IF found.descending THEN Reversed(first) ELSE first, found.n + 1)
SortedByTimestamp ==
    LET order == ListSort([p \in 1..N |-> p]) IN [r \in 1..N |-> upstream[order[r]]]

segment_size == Len(all_rows) \div 3
early_rows == SubSeq(all_rows, 1, segment_size)
middle_rows == SubSeq(all_rows, segment_size + 1, segment_size * 2)
LateFromMiddleStart == SubSeq(all_rows, segment_size + 1, Len(all_rows))
late_rows == SubSeq(all_rows, segment_size * 2 + 1, Len(all_rows))
samples_per_segment == target_size \div 3

\* The number of rows asked of each segment, before the cap to its size.
EarlyCount == samples_per_segment + (IF remaining > 0 THEN 1 ELSE 0)
MiddleCount == samples_per_segment + (IF remaining > 0 THEN 1 ELSE 0)
LateCount == samples_per_segment + remaining

timeLocals == <<count, reservoir, outlier_rows, category_rows, cat_idx, remaining_target,
                category_capacities>>

\* TimeSampler.sample, phase 1: materialise, sort, and yield everything when
\* there are no more rows than the target.
TimeCollect ==
    /\ pc = "time_aware"
    /\ IF N <= target_size
       THEN Yield(SortedByTimestamp)
       ELSE /\ all_rows' = SortedByTimestamp
            /\ remaining' = target_size - (samples_per_segment * 3)
            /\ sampled' = <<>>
            /\ pc' = "time_early"
            /\ UNCHANGED <<stage, upstream, out, timeLocals>>
    /\ UNCHANGED <<fixedVars, tape>>

\* One "if segment_rows:" block of phase 3.
TimeSegment(here, next, rows, wanted, leftover) ==
    /\ pc = here
    /\ pc' = next
    /\ IF rows = <<>>
       THEN UNCHANGED <<sampled, remaining, tape>>
       ELSE LET cnt == Min(wanted, Len(rows))
                call == Call("sample", <<Len(rows), cnt>>)
            IN \E res \in Draws(tape, call, SampleResults(Len(rows), cnt)) :
                /\ sampled' = sampled \o Pick(rows, res)
                /\ tape' = Record(tape, call, res)
                /\ remaining' = leftover
    /\ UNCHANGED <<fixedVars, stage, upstream, out, all_rows, timeLocals>>

\* "remaining -= 1 if remaining > 0 else 0"
RemainingKept == remaining
RemainingAfter == remaining - (IF remaining > 0 THEN 1 ELSE 0)

TimeEarly == TimeSegment("time_early", "time_middle", early_rows, EarlyCount, RemainingAfter)
TimeMiddle == TimeSegment("time_middle", "time_late", middle_rows, MiddleCount, RemainingAfter)
TimeLate == TimeSegment("time_late", "time_shuffle", late_rows, LateCount, remaining)

\* TimeSampler.sample, the end: shuffle, yield the first target_size rows.
TimeShuffle ==
    /\ pc = "time_shuffle"
    /\ LET call == Call("shuffle", <<Len(sampled)>>) IN
       \E res \in Draws(tape, call, ShuffleResults(Len(sampled))) :
        /\ tape' = Record(tape, call, res)
        /\ Yield(Prefix(Pick(sampled, res), target_size))
    /\ UNCHANGED fixedVars

\* ------------------------------------------------------------------ outlier-aware
\* OutlierSampler.sample: columns_to_check = self.outlier_columns or columns.
columns_to_check == IF config.key_columns # <<>> THEN config.key_columns ELSE Columns

\* OutlierSampler._get_numeric_value: None stays None, a number is float(value),
\* a text is float(text) unless that raises.
NumericValue(value) ==
    IF value.t = "int" THEN Float(value.n)
    ELSE IF value.t = "str" THEN FloatOfText(value.s)
    ELSE NotParsed

NoStats == [has |-> FALSE, min |-> NotParsed, max |-> NotParsed, min_row |-> 0, max_row |-> 0, first |-> 0]

\* column_stats[col] after the first n rows of the collecting loop; `first` is
\* the position of the row that created the entry (dict insertion order).
RECURSIVE ColumnStats(_, _)
ColumnStats(col, n) ==
    IF n = 0 THEN NoStats
    ELSE LET col_stats == ColumnStats(col, n - 1)
             row == upstream[n]
             value == NumericValue(input[row][col])
             newMin == ~col_stats.has \/ FloatLess(value, col_stats.min)
             newMax == ~col_stats.has \/ FloatLess(col_stats.max, value)
         IN IF ~value.ok THEN col_stats
            ELSE [has |-> TRUE,
                  min |-> IF newMin THEN value ELSE col_stats.min,
                  min_row |-> IF newMin THEN row ELSE col_stats.min_row,
                  max |-> IF newMax THEN value ELSE col_stats.max,
                  max_row |-> IF newMax THEN row ELSE col_stats.max_row,
                  first |-> IF col_stats.has THEN col_stats.first ELSE n]

column_stats(col) == ColumnStats(col, N)

\* column_stats.items(): the columns that have an entry, in insertion order
\* (by the row that created the entry, then by place in columns_to_check).
StatsBefore(i, j) ==
    LET a == column_stats(columns_to_check[i])
        b == column_stats(columns_to_check[j])
    IN a.first < b.first \/ (a.first = b.first /\ i < j)
StatsColumns ==
    LET has == {i \in DOMAIN columns_to_check : column_stats(columns_to_check[i]).has}
    IN [r \in 1..Cardinality(has) |->
          columns_to_check[CHOOSE i \in has : Cardinality({j \in has : StatsBefore(j, i)}) = r - 1]]

\* Phase 2: min_row then max_row of each column, skipping rows already taken.
RECURSIVE OutlierRows(_)
OutlierRows(c) ==
    IF c = 0 THEN <<>>
    ELSE LET before == OutlierRows(c - 1)
             col_stats == column_stats(StatsColumns[c])
             withMin == IF col_stats.min_row \in Range(before) THEN before
                        ELSE Append(before, col_stats.min_row)
         IN IF col_stats.max_row \in Range(withMin) THEN withMin
            ELSE Append(withMin, col_stats.max_row)

\* Every materialised row, outlier or not.
all_rows_again == all_rows
non_outlier_rows ==
    LET NotOutlier(row) == row \notin Range(outlier_rows) IN SelectSeq(all_rows, NotOutlier)

outlierLocals == <<count, reservoir, sampled, remaining, category_rows, cat_idx,
                   remaining_target, category_capacities>>

\* OutlierSampler.sample, phases 1 and 2.
OutlierCollect ==
    /\ pc = "outlier_aware"
    /\ IF N <= target_size
       THEN Yield(upstream)
       ELSE /\ all_rows' = upstream
            /\ outlier_rows' = OutlierRows(Len(StatsColumns))
            /\ pc' = "outlier_fill"
            /\ UNCHANGED <<stage, upstream, out, outlierLocals>>
    /\ UNCHANGED <<fixedVars, tape>>

\* Phase 3: the rest of the target from the rows that are no outliers.
OutlierFill ==
    /\ pc = "outlier_fill"
    /\ pc' = "outlier_shuffle"
    /\ IF target_size - Len(outlier_rows) > 0 /\ non_outlier_rows # <<>>
       THEN LET sample_count == Min(target_size - Len(outlier_rows), Len(non_outlier_rows))
                call == Call("sample", <<Len(non_outlier_rows), sample_count>>)
            IN \E res \in Draws(tape, call, SampleResults(Len(non_outlier_rows), sample_count)) :
                /\ outlier_rows' = outlier_rows \o Pick(non_outlier_rows, res)
                /\ tape' = Record(tape, call, res)
       ELSE UNCHANGED <<outlier_rows, tape>>
    /\ UNCHANGED <<fixedVars, stage, upstream, out, all_rows, outlierLocals>>

\* The end: shuffle, yield the first target_size rows.
OutlierShuffle ==
    /\ pc = "outlier_shuffle"
    /\ LET call == Call("shuffle", <<Len(outlier_rows)>>) IN
       \E res \in Draws(tape, call, ShuffleResults(Len(outlier_rows))) :
        /\ tape' = Record(tape, call, res)
        /\ Yield(Prefix(Pick(outlier_rows, res), target_size))
    /\ UNCHANGED fixedVars

\* ------------------------------------------------------------------ stratified
\* str(value) if value is not None else "None".
StrOf(value) ==
    IF value.t = "null" THEN "None"
    ELSE IF value.t = "int" THEN IntText[value.n]
    ELSE value.s

\* StratifiedSampler._get_category_key: "|".join of the key columns' texts.
RECURSIVE JoinKeyParts(_, _)
JoinKeyParts(row, n) ==
    IF n = 0 THEN ""
    ELSE IF n = 1 THEN StrOf(row[config.key_columns[1]])
    ELSE JoinKeyParts(row, n - 1) \o "|" \o StrOf(row[config.key_columns[n]])
CategoryKey(row) == JoinKeyParts(row, Len(config.key_columns))
KeyOf(id) == CategoryKey(input[id])

\* Phase 1: category_rows[category_key].append(row) for the first n rows.  The
\* dict keeps its keys in order of first appearance.
RECURSIVE GroupRows(_)
GroupRows(n) ==
    IF n = 0 THEN <<>>
    ELSE LET groups == GroupRows(n - 1)
             row == upstream[n]
             category_key == KeyOf(row)
             at == {c \in DOMAIN groups : groups[c].key = category_key}
         IN IF at = {}
            THEN Append(groups, [key |-> category_key, rows |-> <<row>>])
            ELSE [c \in DOMAIN groups |->
                    IF c \in at THEN [groups[c] EXCEPT !.rows = Append(@, row)] ELSE groups[c]]

category_list(c) == category_rows[c].rows
num_categories == Len(category_rows)

MinPerCategoryNoFloor == target_size \div (num_categories * 2)
min_per_category == Max(1, target_size \div (num_categories * 2))
\* No limit below the target.
MaxPerCategoryUncapped == target_size
max_per_category == Max(min_per_category, target_size \div Max(1, num_categories \div 2))

stratLocals == <<count, reservoir, all_rows, remaining, outlier_rows>>

\* StratifiedSampler.sample, phases 1 and 2.
StratCollect ==
    /\ pc = "stratified"
    /\ IF GroupRows(N) = <<>>
       THEN Yield(<<>>)
       ELSE /\ category_rows' = GroupRows(N)
            /\ sampled' = <<>>
            /\ remaining_target' = target_size
            /\ cat_idx' = 1
            /\ pc' = "strat_first"
            /\ UNCHANGED <<stage, upstream, out, category_capacities, stratLocals>>
    /\ UNCHANGED <<fixedVars, tape>>

\* How many rows the first pass takes from a category of category_size rows.
FirstPassCount(category_size) == Min(Min(min_per_category, category_size), remaining_target)

\* First pass, one category.
StratFirst ==
    /\ pc = "strat_first"
    /\ cat_idx <= num_categories
    /\ LET rows == category_list(cat_idx)
           sample_count == FirstPassCount(Len(rows))
           call == Call("sample", <<Len(rows), sample_count>>)
       IN IF sample_count > 0
          THEN \E res \in Draws(tape, call, SampleResults(Len(rows), sample_count)) :
                /\ sampled' = sampled \o Pick(rows, res)
                /\ remaining_target' = remaining_target - sample_count
                /\ tape' = Record(tape, call, res)
          ELSE UNCHANGED <<sampled, remaining_target, tape>>
    /\ cat_idx' = cat_idx + 1
    /\ UNCHANGED <<fixedVars, stage, upstream, out, pc, category_rows, category_capacities,
                   stratLocals>>

already_sampled(c) ==
    Cardinality({p \in DOMAIN sampled : KeyOf(sampled[p]) = category_rows[c].key})
\* The capacity of a category when the second pass starts.
Capacity(c) ==
    LET available == Len(category_list(c)) - already_sampled(c)
    IN Min(available, max_per_category - already_sampled(c))

\* Second pass, the capacities (an entry only where the capacity is positive).
StratCapacities ==
    /\ pc = "strat_first"
    /\ cat_idx > num_categories
    /\ category_capacities' =
          [c \in 1..num_categories |->
              IF remaining_target > 0 /\ Len(sampled) < target_size /\ Capacity(c) > 0
              THEN Capacity(c) ELSE 0]
    /\ pc' = "strat_second"
    /\ UNCHANGED <<fixedVars, stage, upstream, out, sampled, remaining_target, cat_idx,
                   category_rows, tape, stratLocals>>

HasCapacity(c) == category_capacities[c] > 0
capacity_entries == SelectSeq([c \in 1..num_categories |-> c], HasCapacity)
SecondPassRuns == remaining_target > 0 /\ capacity_entries # <<>>

\* The rows of a category the second pass may still take: `row not in sampled`
\* compares row contents (dict equality).
available_rows(c) ==
    LET already_sampled_keys == {KeyOf(sampled[p]) : p \in DOMAIN sampled}
        Available(id) ==
            \/ KeyOf(id) \notin already_sampled_keys
            \/ ~\E p \in DOMAIN sampled : input[sampled[p]] = input[id]
    IN SelectSeq(category_list(c), Available)

\* Second pass, one turn of the loop.  rand_val = rng.random() * total_capacity
\* lies in [0, total_capacity) and every entry has a capacity of at least 1, so
\* each entry can be the selected one.
StratSecond ==
    /\ pc = "strat_second"
    /\ SecondPassRuns
    /\ LET caps == [e \in 1..Len(capacity_entries) |-> category_capacities[capacity_entries[e]]]
           call == Call("random", caps)
       IN \E sel \in Draws(tape, call, {<<e>> : e \in 1..Len(capacity_entries)}) :
          LET selected_category == capacity_entries[sel[1]]
              rows == available_rows(selected_category)
              tape1 == Record(tape, call, sel)
              pick == Call("choice", <<Len(rows)>>)
          IN IF rows # <<>>
             THEN \E res \in Draws(tape1, pick, {<<i>> : i \in 1..Len(rows)}) :
                    /\ sampled' = Append(sampled, rows[res[1]])
                    /\ remaining_target' = remaining_target - 1
                    /\ category_capacities' =
                          [category_capacities EXCEPT ![selected_category] = @ - 1]
                    /\ tape' = Record(tape1, pick, res)
             ELSE /\ category_capacities' =
                          [category_capacities EXCEPT ![selected_category] = 0]
                  /\ tape' = tape1
                  /\ UNCHANGED <<sampled, remaining_target>>
    /\ UNCHANGED <<fixedVars, stage, upstream, out, pc, cat_idx, category_rows, stratLocals>>

\* The end: shuffle, yield the first target_size rows.
StratShuffle ==
    /\ pc = "strat_second"
    /\ ~SecondPassRuns
    /\ LET call == Call("shuffle", <<Len(sampled)>>) IN
       \E res \in Draws(tape, call, ShuffleResults(Len(sampled))) :
        /\ tape' = Record(tape, call, res)
        /\ Yield(Prefix(Pick(sampled, res), target_size))
    /\ UNCHANGED fixedVars

\* ------------------------------------------------------------------ type inference
\* str.strip() and str.lower() on the texts of the model.
Stripped(text) == IF text = " 2" THEN "2" ELSE text
Lowered(text) == IF text = "Yes" THEN "yes" ELSE text
\* The texts re.match finds a DATETIME_PATTERNS entry at the start of.
DatetimeTexts == {"2025-01-01"}

\* type_inference.infer_type on a value of the model (None, int, str).
infer_type(value) ==
    IF value.t = "null" THEN "unknown"
    ELSE IF value.t = "int" THEN "integer"
    ELSE LET value_stripped == Stripped(value.s) IN
         IF value_stripped = "" THEN "string"
         ELSE IF Lowered(value_stripped) \in {"true", "false", "yes", "no", "1", "0"}
         THEN "boolean"
         ELSE IF value_stripped \in DOMAIN DecimalText THEN "integer"
         ELSE IF FloatOfText(value_stripped).ok THEN "float"
         ELSE IF value_stripped \in DatetimeTexts THEN "datetime"
         ELSE "string"

\* values[:sample_size] if len(values) > sample_size else values
SampleOf(values, sample_size) ==
    IF Len(values) > sample_size THEN SubSeq(values, 1, sample_size) ELSE values
NotNone(value) == value # Null
\* type_counts: the tags of the values that are not None, and how often each.
TagCount(values, tag) == Cardinality({i \in DOMAIN values : infer_type(values[i]) = tag})
\* max(type_counts.items(), key=lambda x: x[1]): the first of the most counted
\* tags in the order the dict got them.
MostCommon(values) ==
    LET first == CHOOSE i \in DOMAIN values :
                    /\ \A j \in DOMAIN values :
                          TagCount(values, infer_type(values[j]))
                             <= TagCount(values, infer_type(values[i]))
                    /\ \A j \in 1..(i - 1) :
                          TagCount(values, infer_type(values[j]))
                             < TagCount(values, infer_type(values[i]))
    IN infer_type(values[first])
\* type_inference.infer_column_type
infer_column_type(values, sample_size) ==
    IF values = <<>> THEN "unknown"
    ELSE LET counted == SelectSeq(SampleOf(values, sample_size), NotNone) IN
         IF counted = <<>> THEN "unknown" ELSE MostCommon(counted)

\* ------------------------------------------------------------------ privacy
\* PrivacyRule; mask_params is a dict, here a sequence of <<name, value>>
\* with the value a text or an integer.
PrivacyRule(column, mask_type, mask_params) ==
    [column |-> column, mask_type |-> mask_type, mask_params |-> mask_params]
\* mask_params.get(name, default)
ParamGet(mask_params, name, default) ==
    IF \E i \in DOMAIN mask_params : mask_params[i][1] = name
    THEN mask_params[CHOOSE i \in DOMAIN mask_params : mask_params[i][1] = name][2]
    ELSE default

Masked(value) == [raised |-> "", value |-> value]
MaskError(text) == [raised |-> text, value |-> Null]
HashAlgorithms == {"sha256", "sha1", "md5"}
\* masks.hash_mask: None hashes to "", whatever the algorithm; the digest of a
\* text is a text that names the algorithm and the digested text.
hash_mask(value, algorithm) ==
    IF value = Null THEN Masked(TextVal(""))
    ELSE IF algorithm \in HashAlgorithms THEN Masked(TextVal(algorithm \o ":" \o StrOf(value)))
    ELSE MaskError("ValueError: Unsupported hash algorithm")
\* masks.redact_mask
redact_mask(value, token) == Masked(TextVal(token))
\* masks.truncate_mask: None becomes "", a text no longer than max_length
\* stays, a longer one is cut and gets "...".
truncate_mask(value, max_length) ==
    IF value = Null THEN Masked(TextVal(""))
    ELSE LET value_str == StrOf(value) IN
         IF Len(value_str) <= max_length THEN Masked(TextVal(value_str))
         ELSE Masked(TextVal(SubSeq(value_str, 1, max_length) \o "..."))
\* masks.bucket_mask: None and whatever float() rejects become ""; a bucket
\* size of 0 makes the floor division raise ZeroDivisionError, which the
\* function does not catch; int() of a NaN raises the ValueError it catches.
bucket_mask(value, bucket_size) ==
    IF value = Null THEN Masked(TextVal(""))
    ELSE LET num_value == NumericValue(value) IN
         IF ~num_value.ok THEN Masked(TextVal(""))
         ELSE IF bucket_size = 0 THEN MaskError("ZeroDivisionError")
         ELSE IF num_value.nan THEN Masked(TextVal(""))
         ELSE LET bucket_start == (num_value.val \div bucket_size) * bucket_size
                  bucket_end == bucket_start + bucket_size - 1
              IN Masked(TextVal(IntText[bucket_start] \o "-" \o IntText[bucket_end]))
\* masks.apply_mask
apply_mask(value, mask_type, mask_params) ==
    IF mask_type = "hash"
    THEN hash_mask(value, ParamGet(mask_params, "algorithm", TextVal("sha256")).s)
    ELSE IF mask_type = "redact"
    THEN redact_mask(value, ParamGet(mask_params, "token", TextVal("[REDACTED]")).s)
    ELSE IF mask_type = "truncate"
    THEN truncate_mask(value, ParamGet(mask_params, "max_length", IntVal(4)).n)
    ELSE IF mask_type = "bucket"
    THEN bucket_mask(value, ParamGet(mask_params, "bucket_size", IntVal(10)).n)
    ELSE MaskError("ValueError: Unknown mask type")

\* rules.apply_privacy_rules, after the first n rules: the masked row, or the
\* error the first failing apply_mask raised.
\* "for rule in privacy_rules": the n-th rule of the loop.
RuleAtReversed(privacy_rules, n) == privacy_rules[Len(privacy_rules) + 1 - n]
RuleAt(privacy_rules, n) == privacy_rules[n]
RECURSIVE ApplyRules(_, _, _)
ApplyRules(row, privacy_rules, n) ==
    IF n = 0 THEN [raised |-> "", row |-> row]
    ELSE LET before == ApplyRules(row, privacy_rules, n - 1)
             rule == RuleAt(privacy_rules, n)
             column == rule.column
         IN IF before.raised # "" \/ column \notin DOMAIN before.row THEN before
            ELSE LET masked_value == apply_mask(before.row[column], rule.mask_type,
                                                rule.mask_params)
                 IN IF masked_value.raised # ""
                    THEN [raised |-> masked_value.raised, row |-> before.row]
                    ELSE [raised |-> "",
                          row |-> [before.row EXCEPT ![column] = masked_value.value]]
apply_privacy_rules(row, privacy_rules) == ApplyRules(row, privacy_rules, Len(privacy_rules))
\* masked_row = row.copy(): the assignments go to the copy, so the caller's
\* row is after the call what it was before.
SourceAfter(row, masked_row) == row

\* ------------------------------------------------------------------ sample_file: values
\* FormatType, and the formats _get_reader and _get_writer have a class for.
\* (The log and sql formats go the way of jsonl in sample_file: their
\* write_header opens the file and writes nothing.)
FormatTypes == {"csv", "jsonl", "unknown"}
SupportedFormats == {"csv", "jsonl"}

\* A reader or writer that is not built yet, and one that is built.
NoHandle == [format |-> "none", open |-> FALSE]
Handle(format) == [format |-> format, open |-> FALSE]
\* The output file before the writer opens it.
NoOutput == [created |-> FALSE, header |-> FALSE, rows |-> <<>>]
\* stats = None
NoneStats == [none |-> TRUE, by_column |-> <<>>]
NoManifest == [written |-> FALSE, keys |-> {}, actual_rows |-> 0]
NoResult == [returned |-> FALSE, row_count |-> 0, manifest_path |-> FALSE]

\* The sampler specifications run sampler.sample alone.
NotInSampleFile ==
    /\ fpc = "none"
    /\ format_type = "none"
    /\ reader = NoHandle
    /\ writer = NoHandle
    /\ output = NoOutput
    /\ sampled_rows_list = <<>>
    /\ row_count = 0
    /\ stats = NoneStats
    /\ caught = ""
    /\ manifest = NoManifest
    /\ result = NoResult
    /\ error = ""

\* ------------------------------------------------------------------ specifications
SamplingModes == {"random", "stratified", "time_aware", "outlier_aware", "composite"}
\* The texts that occur in a key column of the model, and hash() of each in
\* one process (hash() of a str is salted per process).
KeyTexts == {"a", "b"}
SomeHash == ("a" :> 11) @@ ("b" :> 7)

\* The state when sampler.sample(reader.read_rows(), columns) is called: a
\* configuration SamplerConfig and the sampler constructors accept, and the
\* rows of the input.
InitSampler(modes, targets, keys, seeds, pool, maxRows, hashes) ==
    /\ config \in [sampling_mode : modes, target_rows : targets, key_columns : keys,
                  privacy_rules : {<<>>}, seed : seeds]
    /\ config.sampling_mode = "stratified" => config.key_columns # <<>>
    /\ \E n \in 0..maxRows : input \in [1..n -> pool]
    /\ hashOf \in hashes
    /\ chain = SamplersOf(config.sampling_mode)
    /\ stage = 1
    /\ upstream = [i \in 1..Len(input) |-> i]
    /\ pc = chain[1]
    /\ count = 0
    /\ reservoir = <<>>
    /\ all_rows = <<>>
    /\ sampled = <<>>
    /\ remaining = 0
    /\ outlier_rows = <<>>
    /\ category_rows = <<>>
    /\ cat_idx = 0
    /\ remaining_target = 0
    /\ category_capacities = <<>>
    /\ out = <<>>
    /\ tape = <<>>
    /\ run = 1
    /\ prevTape = <<>>
    /\ prevOut = <<>>
    /\ NotInSampleFile

Row(k, v) == [c \in Range(Columns) |-> IF c = "k" THEN k ELSE v]

RandomNext == RandomRow \/ RandomYield
TimeNext == TimeCollect \/ TimeEarly \/ TimeMiddle \/ TimeLate \/ TimeShuffle
OutlierNext == OutlierCollect \/ OutlierFill \/ OutlierShuffle
StratNext == StratCollect \/ StratFirst \/ StratCapacities \/ StratSecond \/ StratShuffle

\* Every sampling mode, over rows with two categories and a numeric column.
Pool == {Row(TextVal("a"), IntVal(1)), Row(TextVal("b"), IntVal(2))}
Init ==
    InitSampler(SamplingModes, 1..MaxTarget, {<<>>, <<"k">>}, {NoSeed}, Pool, MaxRows, {SomeHash})
Next == RandomNext \/ TimeNext \/ OutlierNext \/ StratNext
Spec == Init /\ [][Next]_vars

\* The three samplers that materialise or fill up to the target, over longer
\* inputs.
CountInit ==
    InitSampler({"random", "time_aware", "outlier_aware"}, 1..MaxTargetCount, {<<>>, <<"k">>},
                {NoSeed}, Pool, MaxRowsCount, {SomeHash})
CountNext == RandomNext \/ TimeNext \/ OutlierNext
CountSpec == CountInit /\ [][CountNext]_vars

\* The time-aware sampler alone, over time columns that hold a number, a
\* decimal text, a text that is no number, and None.  (A time column holding
\* "nan" is drawn in OrderPool.)
TimePool == {Row(IntVal(2), Null), Row(TextVal("1"), Null), Row(TextVal("a"), Null), Row(Null, Null)}
TimeHashes == {SomeHash, ("a" :> 0) @@ ("b" :> 7)}
TimeInit ==
    InitSampler({"time_aware"}, 1..MaxTargetTime, {<<>>, <<"k">>}, {NoSeed}, TimePool,
                MaxRowsTime, TimeHashes)
TimeSpec == TimeInit /\ [][TimeNext]_vars

\* The time-aware sampler alone over a time column that also holds the text
\* "nan", which float() parses.
MaxRowsOrder == 3
MaxTargetOrder == 3
OrderPool == TimePool \cup {Row(TextVal("nan"), Null)}
OrderInit ==
    InitSampler({"time_aware"}, 1..MaxTargetOrder, {<<>>, <<"k">>}, {NoSeed}, OrderPool,
                MaxRowsOrder, TimeHashes)
OrderSpec == OrderInit /\ [][TimeNext]_vars

\* The outlier-aware sampler alone, over two columns that hold numbers,
\* decimal texts, "nan", other text and None.
OutlierPool ==
    {Row(TextVal("a"), IntVal(1)), Row(IntVal(5), TextVal("2")), Row(TextVal("a"), IntVal(3)),
     Row(IntVal(0), TextVal("nan")), Row(Null, TextVal("x"))}
OutlierInit ==
    InitSampler({"outlier_aware"}, 1..MaxTargetOutlier, {<<>>, <<"v">>}, {NoSeed}, OutlierPool,
                MaxRowsOutlier, {SomeHash})
OutlierSpec == OutlierInit /\ [][OutlierNext]_vars

\* The stratified sampler alone, over three strata, one of them with rows of
\* different contents.
StratPool ==
    {Row(TextVal("a"), IntVal(1)), Row(TextVal("a"), IntVal(2)), Row(TextVal("b"), IntVal(1)),
     Row(Null, IntVal(1))}
StratInit ==
    InitSampler({"stratified"}, 1..MaxTargetStrat, {<<"k">>}, {NoSeed}, StratPool,
                MaxRowsStrat, {SomeHash})
StratSpec == StratInit /\ [][StratNext]_vars

\* The stratified sampler alone over four strata, the first with more rows
\* than max_per_category admits, and a target of as many rows as the input
\* has.
CappedInput ==
    <<Row(TextVal("a"), IntVal(1)), Row(TextVal("a"), IntVal(2)), Row(TextVal("a"), IntVal(3)),
      Row(TextVal("a"), IntVal(4)), Row(TextVal("b"), IntVal(1)), Row(Null, IntVal(1)),
      Row(IntVal(1), IntVal(1))>>
CappedInit ==
    /\ InitSampler({"stratified"}, {Len(CappedInput)}, {<<"k">>}, {NoSeed}, Range(CappedInput),
                   Len(CappedInput), {SomeHash})
    /\ input = CappedInput
CappedSpec == CappedInit /\ [][StratNext]_vars

\* The stratified sampler alone over one and two key columns that hold None,
\* the text "None", a number, its text, and texts with the separator in them.
MaxRowsKey == 2
MaxTargetKey == 2
KeyPool ==
    {Row(Null, TextVal("c")), Row(TextVal("None"), TextVal("c")),
     Row(IntVal(1), TextVal("c")), Row(TextVal("1"), TextVal("c")),
     Row(TextVal("a|b"), TextVal("c")), Row(TextVal("a"), TextVal("b|c"))}
KeyInit ==
    InitSampler({"stratified"}, 1..MaxTargetKey, {<<"k">>, <<"k", "v">>}, {NoSeed}, KeyPool,
                MaxRowsKey, {SomeHash})
KeySpec == KeyInit /\ [][StratNext]_vars

\* The stratified sampler over two strata of different sizes, the larger one
\* first, every row with contents of its own, and a target that leaves the
\* second pass slots to fill after one row of each stratum.
TwoStrataInput ==
    <<Row(TextVal("ok"), IntVal(1)), Row(TextVal("ok"), IntVal(2)), Row(TextVal("ok"), IntVal(3)),
      Row(TextVal("err"), IntVal(4)), Row(TextVal("err"), IntVal(5))>>
TwoStrataInit ==
    /\ InitSampler({"stratified"}, {Len(TwoStrataInput) - 1}, {<<"k">>}, {NoSeed},
                   Range(TwoStrataInput), Len(TwoStrataInput), {SomeHash})
    /\ input = TwoStrataInput
TwoStrataSpec == TwoStrataInit /\ [][StratNext]_vars

\* A second run of the same configuration over the same input, in a new
\* process: random.Random(seed) starts over, and hash() has a new salt.
Rerun ==
    /\ pc = "done"
    /\ run = 1
    /\ Seeded
    /\ run' = 2
    /\ prevOut' = out
    /\ prevTape' = tape
    /\ hashOf' \in TimeHashes
    /\ stage' = 1
    /\ upstream' = [i \in 1..Len(input) |-> i]
    /\ pc' = chain[1]
    /\ LocalsReset
    /\ out' = <<>>
    /\ tape' = <<>>
    /\ UNCHANGED <<config, input, chain, fileVars>>

\* Every sampling mode with a seed, run twice.
SeededInit ==
    InitSampler(SamplingModes, 1..MaxTargetSeeded, {<<>>, <<"k">>}, {42}, Pool,
                MaxRowsSeeded, TimeHashes)
SeededNext == Next \/ Rerun
SeededSpec == SeededInit /\ [][SeededNext]_vars

\* ------------------------------------------------------------------ sample_file
MaxRowsFile == 2
MaxTargetFile == 2

SamplerConfig(sampling_mode, target_rows, key_columns, privacy_rules, seed) ==
    [sampling_mode |-> sampling_mode, target_rows |-> target_rows,
     key_columns |-> key_columns, privacy_rules |-> privacy_rules, seed |-> seed]
\* config.PROFILES.  key_columns None and privacy_rules None or [] are the
\* empty sequence: the code only tests them for truth.
PROFILES ==
    ("debug_sample" :> SamplerConfig("random", 1000, <<>>, <<>>, NoSeed)) @@
    ("schema_sample" :> SamplerConfig("stratified", 100, <<>>, <<>>, NoSeed)) @@
    ("smoke_test_sample" :> SamplerConfig("random", 100, <<>>, <<>>, 42)) @@
    ("privacy_sample" :> SamplerConfig("random", 1000, <<>>, <<>>, NoSeed))

\* The arguments of a call of sample_file.
FormatArgs == {"", "csv", "jsonl", "unknown", "xml"}
ProfileArgs == DOMAIN PROFILES \cup {"nightly"}
TargetArgs == {1000, 0} \cup 1..MaxTargetFile
KeyArgs == {<<>>, <<"k">>}
RuleSets ==
    {<<>>,
     <<PrivacyRule("v", "redact", <<>>)>>,
     <<PrivacyRule("v", "hash", <<>>)>>,
     <<PrivacyRule("v", "hash", << <<"algorithm", TextVal("crc32")>> >>)>>,
     <<PrivacyRule("v", "rot13", <<>>)>>,
     <<PrivacyRule("k", "truncate", <<>>)>>,
     <<PrivacyRule("w", "rot13", <<>>), PrivacyRule("k", "hash", << <<"algorithm", TextVal("md5")>> >>)>>}
\* The SamplerConfig objects a caller can construct (__post_init__ accepted
\* them) and pass as the config argument.
GivenConfigs ==
    [sampling_mode : SamplingModes, target_rows : 1..MaxTargetFile, key_columns : KeyArgs,
     privacy_rules : RuleSets, seed : {NoSeed}]
\* What detect_format makes of a path.
DetectedFormats == {"csv", "jsonl", "unknown"}
\* The rows of an input file.
FilePool == Pool \cup {Row(TextVal("a"), Null)}

FileInit ==
    /\ fpc = "start"
    /\ config = SamplerConfig("", 0, <<>>, <<>>, NoSeed)
    /\ input = <<>>
    /\ hashOf = SomeHash
    /\ chain = <<>>
    /\ stage = 1
    /\ upstream = <<>>
    /\ pc = "idle"
    /\ count = 0
    /\ reservoir = <<>>
    /\ all_rows = <<>>
    /\ sampled = <<>>
    /\ remaining = 0
    /\ outlier_rows = <<>>
    /\ category_rows = <<>>
    /\ cat_idx = 0
    /\ remaining_target = 0
    /\ category_capacities = <<>>
    /\ out = <<>>
    /\ tape = <<>>
    /\ run = 1
    /\ prevTape = <<>>
    /\ prevOut = <<>>
    /\ format_type = "none"
    /\ reader = NoHandle
    /\ writer = NoHandle
    /\ output = NoOutput
    /\ sampled_rows_list = <<>>
    /\ row_count = 0
    /\ stats = NoneStats
    /\ caught = ""
    /\ manifest = NoManifest
    /\ result = NoResult
    /\ error = ""

samplerLocals == <<stage, upstream, pc, count, reservoir, all_rows, sampled, remaining,
                   outlier_rows, category_rows, cat_idx, remaining_target,
                   category_capacities, out, tape>>
samplerFixed == <<hashOf, run, prevTape, prevOut>>

\* An exception leaves sample_file.
Raise(exception) ==
    /\ fpc' = "raised"
    /\ error' = exception

\* sample_file, "Validate input file exists" and "Determine format".
CheckInput ==
    /\ fpc = "start"
    /\ \E exists \in BOOLEAN, format \in FormatArgs :
          IF ~exists
          THEN Raise("FileNotFoundError") /\ UNCHANGED format_type
          ELSE IF format # "" /\ format \notin FormatTypes
          THEN Raise("ValueError: Unknown format") /\ UNCHANGED format_type
          ELSE /\ format_type' = IF format = "" THEN "none" ELSE format
               /\ fpc' = "config"
               /\ UNCHANGED error
    /\ UNCHANGED <<config, input, chain, samplerLocals, samplerFixed, reader, writer, output,
                   sampled_rows_list, row_count, stats, caught, manifest, result>>

\* config.get_profile_config
KnownProfile(profile) == profile \in DOMAIN PROFILES
\* sample_file, the overrides of the profile: target_rows unless it is the
\* default 1000, key_columns unless None.
ConfigDict(profile, target_rows, key_columns) ==
    LET profile_config == PROFILES[profile] IN
    [profile_config EXCEPT
        !.target_rows = IF target_rows # 1000 THEN target_rows ELSE @,
        !.key_columns = IF key_columns # <<>> THEN key_columns ELSE @]
\* SamplerConfig.__post_init__: the error it raises, "" if none.
PostInit(config_dict) ==
    IF config_dict.target_rows < 1 THEN "ValueError: target_rows must be at least 1"
    ELSE IF config_dict.sampling_mode \notin SamplingModes
    THEN "ValueError: Unknown sampling_mode"
    ELSE ""

\* sample_file, "if config is None": the configuration built from the
\* profile, target_rows and key_columns arguments.
ConfigFromProfile(profile, target_rows, key_columns) ==
    IF ~KnownProfile(profile)
    THEN Raise("ValueError: Unknown profile") /\ UNCHANGED config
    ELSE LET config_dict == ConfigDict(profile, target_rows, key_columns) IN
         IF PostInit(config_dict) # ""
         THEN Raise(PostInit(config_dict)) /\ UNCHANGED config
         ELSE /\ config' = config_dict
              /\ fpc' = "reader"
              /\ UNCHANGED error

\* sample_file, "Build configuration".
BuildConfig ==
    /\ fpc = "config"
    /\ \E given \in BOOLEAN, profile \in ProfileArgs, target_rows \in TargetArgs,
          key_columns \in KeyArgs :
          IF given
          THEN /\ config' \in GivenConfigs
               /\ fpc' = "reader"
               /\ UNCHANGED error
          ELSE ConfigFromProfile(profile, target_rows, key_columns)
    /\ UNCHANGED <<input, chain, samplerLocals, samplerFixed, format_type, reader, writer,
                   output, sampled_rows_list, row_count, stats, caught, manifest, result>>

\* core._get_reader and core._get_writer: the format of the argument, or else
\* the format detected from the path; the error raised when no class reads
\* or writes it.
FormatOf(detected) == IF format_type = "none" THEN detected ELSE format_type

\* sample_file, reader = _get_reader(input_path, format_type).
GetReader ==
    /\ fpc = "reader"
    /\ \E detected \in DetectedFormats :
          IF FormatOf(detected) \in SupportedFormats
          THEN /\ reader' = Handle(FormatOf(detected))
               /\ fpc' = "columns"
               /\ UNCHANGED error
          ELSE Raise("ValueError: Unsupported format") /\ UNCHANGED reader
    /\ UNCHANGED <<config, input, chain, samplerLocals, samplerFixed, format_type, writer,
                   output, sampled_rows_list, row_count, stats, caught, manifest, result>>

\* sample_file, columns = reader.get_columns(): the reader opens its file, or
\* open() fails.
GetColumns ==
    /\ fpc = "columns"
    /\ \E opened \in BOOLEAN :
          IF opened
          THEN /\ reader' = [reader EXCEPT !.open = TRUE]
               /\ fpc' = "writer"
               /\ UNCHANGED error
          ELSE Raise("OSError") /\ UNCHANGED reader
    /\ UNCHANGED <<config, input, chain, samplerLocals, samplerFixed, format_type, writer,
                   output, sampled_rows_list, row_count, stats, caught, manifest, result>>

\* sample_file, writer = _get_writer(output_path, format_type, columns).
GetWriter ==
    /\ fpc = "writer"
    /\ \E detected \in DetectedFormats :
          IF FormatOf(detected) \in SupportedFormats
          THEN /\ writer' = Handle(FormatOf(detected))
               /\ fpc' = "header"
               /\ UNCHANGED error
          ELSE Raise("ValueError: Unsupported format") /\ UNCHANGED writer
    /\ UNCHANGED <<config, input, chain, samplerLocals, samplerFixed, format_type, reader,
                   output, sampled_rows_list, row_count, stats, caught, manifest, result>>

\* CSVWriter.write_header writes the column names; the other writers' write
\* nothing.
HeaderWritten(format) == format = "csv"

\* sample_file, writer.write_header(columns): the writer opens the output file
\* for writing, which creates or empties it, or open() fails.
WriteHeader ==
    /\ fpc = "header"
    /\ \E opened \in BOOLEAN :
          IF opened
          THEN /\ writer' = [writer EXCEPT !.open = TRUE]
               /\ output' = [created |-> TRUE, header |-> HeaderWritten(writer.format),
                             rows |-> <<>>]
               /\ fpc' = "sampler"
               /\ UNCHANGED error
          ELSE Raise("OSError") /\ UNCHANGED <<writer, output>>
    /\ UNCHANGED <<config, input, chain, samplerLocals, samplerFixed, format_type, reader,
                   sampled_rows_list, row_count, stats, caught, manifest, result>>

\* StratifiedSampler.__init__ raises without key columns; the other
\* constructors accept every SamplerConfig.
SamplerError(cfg) ==
    IF cfg.sampling_mode = "stratified" /\ cfg.key_columns = <<>>
    THEN "ValueError: Stratified sampling requires at least one key column"
    ELSE ""

\* sample_file, sampler = _get_sampler(config), and the call
\* sampler.sample(reader.read_rows(), columns) over the rows of the file.
GetSampler ==
    /\ fpc = "sampler"
    /\ IF SamplerError(config) # ""
       THEN /\ Raise(SamplerError(config))
            /\ UNCHANGED <<input, chain, samplerLocals>>
       ELSE /\ \E n \in 0..MaxRowsFile : input' \in [1..n -> FilePool]
            /\ chain' = SamplersOf(config.sampling_mode)
            /\ stage' = 1
            /\ upstream' = [i \in 1..Len(input') |-> i]
            /\ pc' = chain'[1]
            /\ LocalsReset
            /\ out' = <<>>
            /\ tape' = <<>>
            /\ fpc' = "loop"
            /\ UNCHANGED error
    /\ UNCHANGED <<config, samplerFixed, format_type, reader, writer, output,
                   sampled_rows_list, row_count, stats, caught, manifest, result>>

\* sample_file, the finally clause: reader.close() and writer.close().
Closed(handle) == [handle EXCEPT !.open = FALSE]
\* A finally clause that closes the writer alone.
FinallyWriterOnly ==
    /\ reader' = reader
    /\ writer' = Closed(writer)
Finally ==
    /\ reader' = Closed(reader)
    /\ writer' = Closed(writer)

\* sampled_rows_list.append(row): row is by then the masked row.
BufferedOriginal(row, masked_row) == row
Buffered(row, masked_row) == masked_row

\* sample_file, one row of "for row in sampled_rows": the privacy rules, then
\* writer.write_row, which may fail; an exception passes the finally clause.
WriteRow ==
    /\ fpc = "loop"
    /\ pc = "done"
    /\ row_count < Len(out)
    /\ LET row == input[out[row_count + 1]]
           masked == IF config.privacy_rules # <<>>
                     THEN apply_privacy_rules(row, config.privacy_rules)
                     ELSE [raised |-> "", row |-> row]
       IN IF masked.raised # ""
          THEN /\ Finally
               /\ Raise(masked.raised)
               /\ UNCHANGED <<output, sampled_rows_list, row_count>>
          ELSE \E wrote \in BOOLEAN :
               IF wrote
               THEN /\ output' = [output EXCEPT !.rows = Append(@, masked.row)]
                    /\ sampled_rows_list' =
                          Append(sampled_rows_list, Buffered(row, masked.row))
                    /\ row_count' = row_count + 1
                    /\ UNCHANGED <<reader, writer, fpc, error>>
               ELSE /\ Finally
                    /\ Raise("OSError")
                    /\ UNCHANGED <<output, sampled_rows_list, row_count>>
    /\ UNCHANGED <<config, input, chain, samplerLocals, samplerFixed, format_type, stats,
                   caught, manifest, result>>

\* sample_file, the loop ends: the finally clause.
EndLoop ==
    /\ fpc = "loop"
    /\ pc = "done"
    /\ row_count = Len(out)
    /\ Finally
    /\ fpc' = "stats"
    /\ UNCHANGED <<config, input, chain, samplerLocals, samplerFixed, format_type, output,
                   sampled_rows_list, row_count, stats, caught, manifest, result, error>>

\* ColumnStats.update over the values of a column: min_value and max_value
\* are taken over the int values, None when there is none.
IntValues(values) == {values[i] : i \in {i \in DOMAIN values : values[i].t = "int"}}
MinValue(values) ==
    IF IntValues(values) = {} THEN Null
    ELSE CHOOSE value \in IntValues(values) : \A other \in IntValues(values) : value.n <= other.n
MaxValue(values) ==
    IF IntValues(values) = {} THEN Null
    ELSE CHOOSE value \in IntValues(values) : \A other \in IntValues(values) : value.n >= other.n
\* top_values: each value that is not None, with the times it occurs.  The
\* inputs hold fewer than max_top_values different values, so nothing is
\* trimmed.
TopValues(values) ==
    [value \in Range(values) \ {Null} |->
        Cardinality({i \in DOMAIN values : values[i] = value})]
\* stats.collect_stats over the buffered rows: per column, the values counted,
\* the None among them, the type guess, the extremes and the top values.
StatsOf(rows) ==
    [none |-> FALSE,
     by_column |-> [c \in Range(Columns) |->
                      LET values == [i \in DOMAIN rows |-> rows[i][c]] IN
                      [total_count |-> Len(rows),
                       null_count |-> Cardinality({i \in DOMAIN rows : rows[i][c] = Null}),
                       type_guess |-> infer_column_type(values, 100),
                       min_value |-> MinValue(values),
                       max_value |-> MaxValue(values),
                       top_values |-> TopValues(values)]]]

\* sample_file, "Collect basic stats for manifest": stats = None, then
\* collect_stats, whose exception the except clause catches and drops.
CollectStats ==
    /\ fpc = "stats"
    /\ \E raised \in BOOLEAN :
          IF raised
          THEN /\ stats' = NoneStats
               /\ caught' = "Exception"
          ELSE /\ stats' = StatsOf(sampled_rows_list)
               /\ caught' = ""
    /\ fpc' = "manifest"
    /\ UNCHANGED <<config, input, chain, samplerLocals, samplerFixed, format_type, reader,
                   writer, output, sampled_rows_list, row_count, manifest, result, error>>

\* manifest.generate_manifest: the keys of the manifest.  "if stats": a dict
\* is true when it is not empty, None is false.
BaseKeys ==
    {"dnuds_version", "timestamp", "input_path", "output_path", "input_format",
     "output_format", "sampling_mode", "target_rows", "actual_rows", "key_columns", "seed",
     "columns", "column_count"}
ManifestKeysWithStats(st, cfg) ==
    BaseKeys \cup {"column_stats"}
        \cup (IF cfg.privacy_rules # <<>> THEN {"privacy_rules"} ELSE {})
ManifestKeys(st, cfg) ==
    BaseKeys \cup (IF ~st.none /\ DOMAIN st.by_column # {} THEN {"column_stats"} ELSE {})
        \cup (IF cfg.privacy_rules # <<>> THEN {"privacy_rules"} ELSE {})

\* sample_file, generate_manifest(...) and return SampleResult(...).
GenerateManifest ==
    /\ fpc = "manifest"
    /\ manifest' = [written |-> TRUE, keys |-> ManifestKeys(stats, config),
                    actual_rows |-> row_count]
    /\ result' = [returned |-> TRUE, row_count |-> row_count, manifest_path |-> TRUE]
    /\ fpc' = "returned"
    /\ UNCHANGED <<config, input, chain, samplerLocals, samplerFixed, format_type, reader,
                   writer, output, sampled_rows_list, row_count, stats, caught, error>>

FileNext ==
    \/ CheckInput \/ BuildConfig \/ GetReader \/ GetColumns \/ GetWriter \/ WriteHeader
    \/ GetSampler \/ Next \/ WriteRow \/ EndLoop \/ CollectStats \/ GenerateManifest
FileSpec == FileInit /\ [][FileNext]_vars

\* ------------------------------------------------------------------ the privacy stage alone
MaxRowsPrivacy == 2
MaxRulesPrivacy == 2

\* No sampler is running and sample_file is not running.
NoSampler ==
    /\ hashOf = SomeHash
    /\ chain = <<>>
    /\ stage = 1
    /\ upstream = <<>>
    /\ pc = "idle"
    /\ count = 0
    /\ reservoir = <<>>
    /\ all_rows = <<>>
    /\ sampled = <<>>
    /\ remaining = 0
    /\ outlier_rows = <<>>
    /\ category_rows = <<>>
    /\ cat_idx = 0
    /\ remaining_target = 0
    /\ category_capacities = <<>>
    /\ out = <<>>
    /\ tape = <<>>
    /\ run = 1
    /\ prevTape = <<>>
    /\ prevOut = <<>>

\* Rules of every mask type, on a column of numbers, a column of texts and a
\* column no row has; one of an unknown type.
PrivacyRules ==
    {PrivacyRule("v", "redact", <<>>),
     PrivacyRule("v", "hash", <<>>),
     PrivacyRule("v", "bucket", << <<"bucket_size", IntVal(2)>> >>),
     PrivacyRule("k", "truncate", << <<"max_length", IntVal(1)>> >>),
     PrivacyRule("k", "hash", << <<"algorithm", TextVal("md5")>> >>),
     PrivacyRule("w", "redact", <<>>),
     PrivacyRule("v", "rot13", <<>>)}
PrivacyPool ==
    {Row(TextVal("bcd"), IntVal(3)), Row(TextVal("a"), TextVal("5")), Row(Null, Null)}

\* The rows a caller holds, and the rules it passes with each of them.
PrivacyInit ==
    /\ \E n \in 0..MaxRulesPrivacy : \E rules \in [1..n -> PrivacyRules] :
          config = SamplerConfig("random", 1, <<>>, rules, NoSeed)
    /\ \E n \in 0..MaxRowsPrivacy : input \in [1..n -> PrivacyPool]
    /\ NoSampler
    /\ fpc = "privacy"
    /\ format_type = "none"
    /\ reader = NoHandle
    /\ writer = NoHandle
    /\ output = NoOutput
    /\ sampled_rows_list = <<>>
    /\ row_count = 0
    /\ stats = NoneStats
    /\ caught = ""
    /\ manifest = NoManifest
    /\ result = NoResult
    /\ error = ""

\* masked = apply_privacy_rules(row, privacy_rules) on the caller's next row.
ApplyPrivacyRules ==
    /\ fpc = "privacy"
    /\ row_count < Len(input)
    /\ LET row == input[row_count + 1]
           masked == apply_privacy_rules(row, config.privacy_rules)
       IN IF masked.raised # ""
          THEN /\ Raise(masked.raised)
               /\ UNCHANGED <<input, sampled_rows_list, row_count>>
          ELSE /\ input' = [input EXCEPT ![row_count + 1] = SourceAfter(row, masked.row)]
               /\ sampled_rows_list' = Append(sampled_rows_list, masked.row)
               /\ row_count' = row_count + 1
               /\ UNCHANGED <<fpc, error>>
    /\ UNCHANGED <<config, chain, samplerLocals, samplerFixed, format_type, reader, writer,
                   output, stats, caught, manifest, result>>

PrivacySpec == PrivacyInit /\ [][ApplyPrivacyRules]_vars

\* ------------------------------------------------------------------ the writers alone
MaxRowsWriter == 3

\* The column names rows carry, in the order a row's keys are in, and the
\* column lists a reader hands out.
KeyOrder == <<"k", "v", "message">>
ColumnLists == {<<>>, <<"k">>, <<"k", "v">>}
\* list(row.keys())
Keys(row) == SelectSeq(KeyOrder, LAMBDA c : c \in DOMAIN row)
\* The rows a caller writes: every set of keys, the empty row included.
WriterRows == {[c \in S |-> TextVal(c)] : S \in SUBSET Range(KeyOrder)}

\* CSVWriter.__init__ (columns or [], write_header left at its default True),
\* JSONLWriter.__init__, LogWriter.__init__ (message_column and
\* format_template left at their defaults), SQLWriter.__init__ (columns None).
CSVWriter(columns) ==
    [format |-> "csv", open |-> FALSE, columns |-> columns, header_written |-> FALSE]
JSONLWriter == [format |-> "jsonl", open |-> FALSE]
LogWriter == [format |-> "log", open |-> FALSE, message_column |-> "message"]
SQLWriter == [format |-> "sql", open |-> FALSE, columns |-> <<>>, columns_is_none |-> TRUE]

\* The output file of a writer: the lines written since it was opened. A line
\* is the list of (column, value) it holds, in order.
NoFile == [created |-> FALSE, lines |-> <<>>]
Line(kind, cells) == [kind |-> kind, cells |-> cells]
\* DictWriter.writeheader()
HeaderLine(columns) ==
    Line("header", [i \in 1..Len(columns) |-> <<columns[i], TextVal(columns[i])>>])
\* row.get(col, default)
RowGet(row, col, default) == IF col \in DOMAIN row THEN row[col] ELSE default
\* A line that holds every key of the row, whatever the column list.
AllKeysLine(columns, row, default) ==
    Line("row", [i \in 1..Len(SelectSeq(KeyOrder, LAMBDA c : c \in DOMAIN row)) |->
                    <<SelectSeq(KeyOrder, LAMBDA c : c \in DOMAIN row)[i],
                      row[SelectSeq(KeyOrder, LAMBDA c : c \in DOMAIN row)[i]]>>])
\* DictWriter.writerow(row) with extrasaction="ignore" and restval "", and the
\* values list of SQLWriter.write_row: one value per column of the list.
ColumnsLine(columns, row, default) ==
    Line("row", [i \in 1..Len(columns) |-> <<columns[i], RowGet(row, columns[i], default)>>])

\* _open of every writer: a writer that has a handle keeps it, else the file
\* is opened with mode "w".
Opened(w, file) ==
    IF w.open
    THEN [writer |-> w, output |-> file]
    ELSE [writer |-> [w EXCEPT !.open = TRUE],
          output |-> [created |-> TRUE, lines |-> <<>>]]
Written(o, line) == [o EXCEPT !.output.lines = Append(@, line)]

\* CSVWriter.write_header(columns)
CSVWriteHeader(w, file, columns) ==
    LET o == Opened(w, file)
        set == IF o.writer.columns = <<>>
               THEN [o EXCEPT !.writer.columns = columns]
               ELSE o
    IN IF ~set.writer.header_written
       THEN Written([set EXCEPT !.writer.header_written = TRUE],
                    HeaderLine(set.writer.columns))
       ELSE set

\* CSVWriter.write_row(row)
CSVWriteRow(w, file, row) ==
    LET o == Opened(w, file)
        headed ==
            IF o.writer.header_written
            THEN o
            ELSE IF o.writer.columns # <<>>
            THEN Written([o EXCEPT !.writer.header_written = TRUE],
                         HeaderLine(o.writer.columns))
            ELSE IF DOMAIN row # {}
            THEN Written([o EXCEPT !.writer.columns = Keys(row),
                                   !.writer.header_written = TRUE],
                         HeaderLine(Keys(row)))
            ELSE o
    IN Written(headed, ColumnsLine(headed.writer.columns, row, TextVal("")))

\* JSONLWriter.write_row(row): json.dumps(row), every key of the row.
JSONLWriteRow(w, file, row) ==
    Written(Opened(w, file),
            Line("row", [i \in 1..Len(Keys(row)) |-> <<Keys(row)[i], row[Keys(row)[i]]>>]))

\* LogWriter.write_row(row) without a template: the value of the message
\* column, else of the row's first key, else the empty text.
LogWriteRow(w, file, row) ==
    LET column == IF w.message_column \in DOMAIN row THEN w.message_column
                  ELSE IF DOMAIN row # {} THEN Keys(row)[1]
                  ELSE ""
    IN Written(Opened(w, file),
               Line("row", IF column = "" THEN <<>> ELSE << <<column, row[column]>> >>))

\* SQLWriter.write_header(columns)
SQLWriteHeader(w, file, columns) ==
    [Opened(w, file) EXCEPT !.writer.columns = columns, !.writer.columns_is_none = FALSE]

\* SQLWriter.write_row(row)
SQLWriteRow(w, file, row) ==
    LET o == Opened(w, file)
        set == IF o.writer.columns_is_none
               THEN [o EXCEPT !.writer.columns = Keys(row), !.writer.columns_is_none = FALSE]
               ELSE o
    IN Written(set, ColumnsLine(set.writer.columns, row, Null))

\* writer.write_header(columns) and writer.write_row(row) of the writer's class.
write_header(w, file, columns) ==
    CASE w.format = "csv" -> CSVWriteHeader(w, file, columns)
      [] w.format = "sql" -> SQLWriteHeader(w, file, columns)
      [] OTHER -> Opened(w, file)
write_row(w, file, row) ==
    CASE w.format = "csv" -> CSVWriteRow(w, file, row)
      [] w.format = "jsonl" -> JSONLWriteRow(w, file, row)
      [] w.format = "log" -> LogWriteRow(w, file, row)
      [] w.format = "sql" -> SQLWriteRow(w, file, row)

\* A caller that holds a reader's column list and a writer _get_writer built
\* for it (CSVWriter also as built without a column list).
WriterInit ==
    /\ config = SamplerConfig("random", 1, <<>>, <<>>, NoSeed)
    /\ input = <<>>
    /\ NoSampler
    /\ fpc = "writer"
    /\ format_type = "none"
    /\ \E columns \in ColumnLists :
          /\ reader = [format |-> "none", open |-> FALSE, columns |-> columns]
          /\ writer \in {CSVWriter(columns), CSVWriter(<<>>), JSONLWriter, LogWriter, SQLWriter}
    /\ output = NoFile
    /\ sampled_rows_list = <<>>
    /\ row_count = 0
    /\ stats = NoneStats
    /\ caught = ""
    /\ manifest = NoManifest
    /\ result = NoResult
    /\ error = ""

\* writer.write_header(columns) with the reader's column list.
CallWriteHeader ==
    /\ fpc = "writer"
    /\ LET o == write_header(writer, output, reader.columns)
       IN writer' = o.writer /\ output' = o.output
    /\ UNCHANGED <<config, input, chain, samplerLocals, samplerFixed, fpc, format_type, reader,
                   sampled_rows_list, row_count, stats, caught, manifest, result, error>>

\* writer.write_row(row)
CallWriteRow ==
    /\ fpc = "writer"
    /\ row_count < MaxRowsWriter
    /\ \E row \in WriterRows :
          LET o == write_row(writer, output, row)
          IN /\ writer' = o.writer
             /\ output' = o.output
             /\ sampled_rows_list' = Append(sampled_rows_list, row)
    /\ row_count' = row_count + 1
    /\ UNCHANGED <<config, input, chain, samplerLocals, samplerFixed, fpc, format_type, reader,
                   stats, caught, manifest, result, error>>

WriterNext == CallWriteHeader \/ CallWriteRow
WriterSpec == WriterInit /\ [][WriterNext]_vars

\* ------------------------------------------------------------------ type inference alone
MaxValues == 3
MaxSampleSize == 2

\* The values of a column, and the call infer_column_type(values, sample_size).
InferPool ==
    {Null, IntVal(1), TextVal("1"), TextVal(" 2"), TextVal("nan"), TextVal("a"),
     TextVal("2025-01-01"), TextVal(""), TextVal("Yes")}
ValuesOf(rows) == [i \in DOMAIN rows |-> rows[i]["v"]]
InferInit ==
    /\ config = SamplerConfig("random", 1, <<>>, <<>>, NoSeed)
    /\ \E n \in 0..MaxValues : input \in [1..n -> {Row(Null, value) : value \in InferPool}]
    /\ NoSampler
    /\ fpc = "infer"
    /\ format_type = "none"
    /\ reader = NoHandle
    /\ writer = NoHandle
    /\ output = NoOutput
    /\ sampled_rows_list = <<>>
    /\ row_count = 0
    /\ stats = NoneStats
    /\ caught = ""
    /\ manifest = NoManifest
    /\ result = NoResult
    /\ error = ""
InferColumnType(sample_size) ==
    /\ fpc = "infer"
    /\ fpc' = "inferred"
    /\ stats' = [none |-> FALSE,
                 by_column |-> [c \in {"v"} |->
                    [type_guess |-> infer_column_type(ValuesOf(input), sample_size)]]]
    /\ UNCHANGED <<config, input, chain, samplerLocals, samplerFixed, format_type, reader,
                   writer, output, sampled_rows_list, row_count, caught, manifest, result,
                   error>>
InferNext == \E sample_size \in 1..MaxSampleSize : InferColumnType(sample_size)
InferSpec == InferInit /\ [][InferNext]_vars

\* ------------------------------------------------------------------ the JSONL reader alone
MaxLinesJSONL == 3

\* A parsed JSON value: a dict with its items in order, or anything else.
NotDict == [dict |-> FALSE, items |-> <<>>]
Dict(items) == [dict |-> TRUE, items |-> items]
Item(key, value) == [key |-> key, value |-> value]
\* The lines of a file, and json.loads of each: ok is FALSE where it raises
\* JSONDecodeError.
JSONLLines == {"", " ", "{bad", "5", "{\"k\": 1}", "{\"v\": 2, \"k\": 1}", "{\"k\": {\"v\": 1}}"}
json_loads(line) ==
    CASE line = "5" -> [ok |-> TRUE, value |-> NotDict]
      [] line = "{\"k\": 1}" -> [ok |-> TRUE, value |-> Dict(<<Item("k", NotDict)>>)]
      [] line = "{\"v\": 2, \"k\": 1}" ->
            [ok |-> TRUE, value |-> Dict(<<Item("v", NotDict), Item("k", NotDict)>>)]
      [] line = "{\"k\": {\"v\": 1}}" ->
            [ok |-> TRUE, value |-> Dict(<<Item("k", Dict(<<Item("v", NotDict)>>))>>)]
      [] OTHER -> [ok |-> FALSE, value |-> NotDict]
\* line.strip()
StrippedLine(line) == IF line = " " THEN "" ELSE line

\* JSONLReader._flatten_keys
RECURSIVE _flatten_keys(_, _)
_flatten_keys(items, prefix) ==
    IF items = <<>> THEN <<>>
    ELSE LET full_key == IF prefix # "" THEN prefix \o "." \o items[1].key
                         ELSE items[1].key
         IN (IF items[1].value.dict THEN _flatten_keys(items[1].value.items, full_key)
             ELSE <<full_key>>) \o _flatten_keys(Tail(items), prefix)

\* row = {"value": row} for a JSON value that is not a dict
RowOfValue(value) == IF value.dict THEN value ELSE Dict(<<Item("value", NotDict)>>)
\* A line read_rows yields a row for.
Yields(line) == StrippedLine(line) # "" /\ json_loads(StrippedLine(line)).ok

\* JSONLReader.__init__; pos counts the lines the file handle has passed.
NewJSONLReader ==
    [format |-> "jsonl", open |-> FALSE, columns |-> <<>>, _columns_determined |-> FALSE,
     pos |-> 0, exhausted |-> FALSE]
JSONLInit ==
    /\ config = SamplerConfig("random", 1, <<>>, <<>>, NoSeed)
    /\ \E n \in 0..MaxLinesJSONL : input \in [1..n -> JSONLLines]
    /\ NoSampler
    /\ fpc = "jsonl"
    /\ format_type = "jsonl"
    /\ reader = NewJSONLReader
    /\ writer = NoHandle
    /\ output = NoOutput
    /\ sampled_rows_list = <<>>
    /\ row_count = 0
    /\ stats = NoneStats
    /\ caught = ""
    /\ manifest = NoManifest
    /\ result = NoResult
    /\ error = ""
JSONLUnchanged ==
    UNCHANGED <<config, input, chain, samplerLocals, samplerFixed, fpc, format_type, writer,
                output, sampled_rows_list, row_count, stats, caught, manifest, result, error>>

\* JSONLReader.get_columns: readline() at the handle's position, then seek back.
JSONLGetColumns ==
    /\ fpc = "jsonl"
    /\ IF reader._columns_determined THEN UNCHANGED reader
       ELSE LET first_line == IF reader.pos < Len(input) THEN input[reader.pos + 1] ELSE ""
                stripped == StrippedLine(first_line)
                row == json_loads(stripped)
            IN reader' =
                 IF stripped # "" /\ row.ok /\ row.value.dict
                 THEN [reader EXCEPT !.open = TRUE,
                                     !.columns = _flatten_keys(row.value.items, ""),
                                     !._columns_determined = TRUE]
                 ELSE IF stripped # "" /\ row.ok
                 THEN [reader EXCEPT !.open = TRUE, !.columns = <<"value">>]
                 ELSE [reader EXCEPT !.open = TRUE, !.columns = <<>>]
    /\ JSONLUnchanged
\* One resumption of the read_rows generator: to the next row it yields, or
\* to the end of the file.
JSONLReadRow ==
    /\ fpc = "jsonl"
    /\ ~reader.exhausted
    /\ LET yielding == {i \in (reader.pos + 1)..Len(input) : Yields(input[i])} IN
       IF yielding = {}
       THEN reader' = [reader EXCEPT !.open = TRUE, !.pos = Len(input), !.exhausted = TRUE]
       ELSE LET line_num == CHOOSE i \in yielding : \A j \in yielding : i <= j
                row == RowOfValue(json_loads(StrippedLine(input[line_num])).value)
            IN reader' =
                 IF reader._columns_determined
                 THEN [reader EXCEPT !.open = TRUE, !.pos = line_num]
                 ELSE [reader EXCEPT !.open = TRUE, !.pos = line_num,
                                     !.columns = _flatten_keys(row.items, ""),
                                     !._columns_determined = TRUE]
    /\ JSONLUnchanged
JSONLNext == JSONLGetColumns \/ JSONLReadRow
JSONLSpec == JSONLInit /\ [][JSONLNext]_vars

\* ------------------------------------------------------------------ claims
Mode == config.sampling_mode
Done == pc = "done"

\* C1: whatever the strategy, the input and the RNG's draws, a sampler yields
\* at most target_rows rows.
C1_AtMostTarget == Done => Len(out) <= config.target_rows
C1_Witness ==
    /\ Done
    /\ Mode = "outlier_aware"
    /\ Len(input) > config.target_rows
    /\ Len(out) = config.target_rows
    /\ config.target_rows = 1

\* C2: the random, time-aware and outlier-aware samplers yield exactly
\* min(target_rows, N) rows.
C2_ExactCount ==
    (Done /\ Mode \in {"random", "time_aware", "outlier_aware"})
        => Len(out) = Min(config.target_rows, Len(input))

\* C6: every row a sampler holds or yields is a row it received from its
\* upstream, at every stage of a chain, and every upstream row is a row the
\* reader produced.
C6_OnlyUpstreamRows ==
    /\ Range(upstream) \subseteq DOMAIN input
    /\ Range(reservoir) \cup Range(all_rows) \cup Range(sampled) \cup Range(outlier_rows)
          \subseteq Range(upstream)
    /\ Done => Range(out) \subseteq Range(upstream)
C6_Witness ==
    /\ Done
    /\ Mode = "composite"
    /\ stage = 3
    /\ Len(upstream) < Len(input)
    /\ out # <<>>

\* C9: the time-aware sampler yields a row of each timestamp-ordered third
\* when no third is empty and target_rows >= 3.
\* The number of rows that come before the row at position p when the rows
\* are ordered by timestamp, rows of equal timestamp in arrival order.
ThirdOf ==
    LET ts == [p \in 1..N |-> Ts(p).val]
        before == [p \in 1..N |->
                     Cardinality({q \in 1..N : ts[q] < ts[p] \/ (ts[q] = ts[p] /\ q < p)})]
    IN [p \in 1..N |-> IF before[p] < N \div 3 THEN 1
                        ELSE IF before[p] < 2 * (N \div 3) THEN 2
                        ELSE 3]
\* The thirds (1: early, 2: middle, 3: late) that have a row in the output.
ThirdsOfOutput ==
    LET third == ThirdOf IN {third[p] : p \in {q \in 1..N : upstream[q] \in Range(out)}}
Stratum(key) == {id \in Range(upstream) : KeyOf(id) = key}
StrataKeys == {KeyOf(id) : id \in Range(upstream)}
C10_MinPerStratum ==
    (Done /\ Mode = "stratified" /\ Cardinality(StrataKeys) <= config.target_rows)
        => \A key \in StrataKeys :
              Cardinality(Range(out) \cap Stratum(key))
                 >= Min(Cardinality(Stratum(key)),
                        Max(1, config.target_rows \div (2 * Cardinality(StrataKeys))))
C10_Witness ==
    /\ Done
    /\ Mode = "stratified"
    /\ Cardinality(StrataKeys) = 1
    /\ config.target_rows = 4
    /\ Len(input) = 4
    /\ Cardinality(Range(out)) >= 2

\* C8: the outlier-aware sampler yields, for every tracked column that holds a
\* number, a row carrying the column's minimum and a row carrying its maximum,
\* whenever the rows carrying a minimum or a maximum are at most target_rows.
TrackedColumns ==
    IF config.key_columns # <<>> THEN Range(config.key_columns) ELSE Range(Columns)
IsNumber(id, col) == NumericValue(input[id][col]).ok /\ ~NumericValue(input[id][col]).nan
Numbers(col) == {NumericValue(input[id][col]).val : id \in {r \in Range(upstream) : IsNumber(r, col)}}
Minimum(col) == CHOOSE m \in Numbers(col) : \A x \in Numbers(col) : m <= x
Maximum(col) == CHOOSE m \in Numbers(col) : \A x \in Numbers(col) : m >= x
Carriers(col, m) ==
    {id \in Range(upstream) : IsNumber(id, col) /\ NumericValue(input[id][col]).val = m}
MinMaxCarriers ==
    UNION {Carriers(col, Minimum(col)) \cup Carriers(col, Maximum(col)) :
              col \in {c \in TrackedColumns : Numbers(c) # {}}}
C8_MinMaxKept ==
    (Done /\ Mode = "outlier_aware" /\ Cardinality(MinMaxCarriers) <= config.target_rows)
        => \A col \in {c \in TrackedColumns : Numbers(c) # {}} :
              /\ Range(out) \cap Carriers(col, Minimum(col)) # {}
              /\ Range(out) \cap Carriers(col, Maximum(col)) # {}

\* C5: with a seed, a second run of the same configuration over the same input
\* yields the same row sequence as the first.
C5_SameOutput == (run = 2 /\ Done /\ Seeded) => out = prevOut

\* C3: on every exit of sample_file, by return or by exception, the reader's
\* and the writer's files are closed.
Exited == fpc \in {"returned", "raised"}
C3_HandlesClosed == Exited => ~reader.open /\ ~writer.open

\* C4: a configuration error leaves sample_file before the output file is
\* created or its header written.
ConfigErrors ==
    {"ValueError: Unknown profile", "ValueError: target_rows must be at least 1",
     "ValueError: Unknown sampling_mode", "ValueError: Stratified sampling requires at least one key column",
     "ValueError: Unknown mask type", "ValueError: Unsupported hash algorithm"}
C4_ConfigErrorBeforeOutput ==
    (fpc = "raised" /\ error \in ConfigErrors) => ~output.created /\ ~output.header

\* C7: when collect_stats raises, sample_file raises nothing; the manifest is
\* written without a column_stats block and sample_file returns the row count
\* and the manifest path.
C7_StatsFailureSwallowed ==
    caught # "" =>
        /\ fpc \in {"manifest", "returned"}
        /\ error = ""
        /\ fpc = "returned" =>
              /\ manifest.written
              /\ "column_stats" \notin manifest.keys
              /\ manifest.actual_rows = row_count
              /\ result = [returned |-> TRUE, row_count |-> row_count, manifest_path |-> TRUE]
C7_Witness ==
    /\ caught # ""
    /\ fpc = "returned"
    /\ row_count = 2
    /\ "privacy_rules" \in manifest.keys
    /\ ~reader.open /\ ~writer.open

\* C11: apply_privacy_rules leaves the caller's row as it was and returns a
\* row of the same columns in which every column holds what the rules naming
\* that column make of its value, applied in the configured order: a column
\* no rule names keeps its value, and a rule naming no column of the row
\* changes nothing.
RECURSIVE MaskedInOrder(_, _, _, _)
MaskedInOrder(value, column, privacy_rules, n) ==
    IF n = 0 THEN value
    ELSE LET before == MaskedInOrder(value, column, privacy_rules, n - 1) IN
         IF privacy_rules[n].column = column
         THEN apply_mask(before, privacy_rules[n].mask_type, privacy_rules[n].mask_params).value
         ELSE before
C11_RulesInOrder ==
    [][(fpc = "privacy" /\ row_count' = row_count + 1) =>
          LET row == input[row_count + 1]
              masked == sampled_rows_list'[row_count + 1]
          IN /\ input' = input
             /\ DOMAIN masked = DOMAIN row
             /\ \A column \in DOMAIN row :
                   masked[column] = MaskedInOrder(row[column], column, config.privacy_rules,
                                                  Len(config.privacy_rules))]_vars
C11_Witness ==
    /\ fpc = "privacy"
    /\ row_count = 2
    /\ config.privacy_rules = <<PrivacyRule("v", "redact", <<>>), PrivacyRule("v", "hash", <<>>)>>
    /\ input[2] = Row(TextVal("bcd"), IntVal(3))
    /\ sampled_rows_list[2] = Row(TextVal("bcd"), TextVal("sha256:[REDACTED]"))

\* C12: once the sampling loop of sample_file runs, no application of a
\* privacy rule to a row raises.
MaskErrors ==
    {"ValueError: Unknown mask type", "ValueError: Unsupported hash algorithm",
     "ZeroDivisionError"}
C12_NoRowTimeMaskError == (pc = "done" /\ fpc = "raised") => error \notin MaskErrors

\* C13: in the file of the tabular writer, after any sequence of write_header
\* and write_row calls that wrote something, the first line is the header row
\* of the writer's column list and no other line is a header: the header is
\* written exactly once and before any data row.
C13_HeaderOnceBeforeRows ==
    (writer.format = "csv" /\ output.lines # <<>>) =>
        /\ output.lines[1] = HeaderLine(writer.columns)
        /\ \A i \in 2..Len(output.lines) : output.lines[i].kind = "row"

\* The column list of a writer: the list the tabular and SQL writers keep,
\* and for the writers that keep none the list handed to write_header.
ColumnListOf(w, given) == IF w.format \in {"csv", "sql"} THEN w.columns ELSE given
\* The columns the line a write_row call just wrote holds values under.
ColumnsOfLine(line) == {line.cells[i][1] : i \in DOMAIN line.cells}
LastLine(file) == file.lines[Len(file.lines)]

C15_ExplicitTargetOverrides ==
    [][\A profile \in DOMAIN PROFILES, target_rows \in TargetArgs, key_columns \in KeyArgs :
          (fpc = "config" /\ ConfigFromProfile(profile, target_rows, key_columns)
              /\ fpc' = "reader")
          => config'.target_rows = target_rows]_vars

\* The draws of one run of the random sampler over its N rows: one result of
\* randint(0, i) for every 0-based row index i from target_rows on.  The
\* draws of a generator are independent and each uniform on its range, so
\* every such run is as likely as every other.
DrawRuns ==
    {d \in [target_size..(N - 1) -> 0..(N - 1)] : \A i \in DOMAIN d : d[i] \in randint(0, i)}
\* The reservoir after the first cnt rows of a run with the draws d.
RECURSIVE ReservoirAfter(_, _)
ReservoirAfter(d, cnt) ==
    IF cnt = 0 THEN <<>>
    ELSE LET res == ReservoirAfter(d, cnt - 1) IN
         IF Len(res) < target_size
         THEN Append(res, RowAt(cnt))
         ELSE Replaced(res, d[cnt - 1], RowAt(cnt))
RunsWith(p) == {d \in DrawRuns : RowAt(p) \in Range(ReservoirAfter(d, N))}

\* C16: over the equally likely runs of the random sampler on N >= target_rows
\* rows, every row is in the emitted reservoir in the fraction target_rows / N
\* of the runs.
C16_UniformInclusion ==
    (pc = "random" /\ N >= target_size) =>
        \A p \in 1..N : Cardinality(RunsWith(p)) * N = target_size * Cardinality(DrawRuns)
C16_Witness ==
    /\ Mode = "random"
    /\ pc = "random"
    /\ count = N
    /\ N = 4
    /\ target_size = 2
    /\ reservoir = <<4, 3>>

\* After count rows the reservoir holds min(count, target_rows) distinct rows
\* of those count rows; at a row past the fill phase every slot can be
\* replaced and the row can be dropped.
C17_Reservoir ==
    pc = "random" =>
        /\ Len(reservoir) = Min(count, target_size)
        /\ Range(reservoir) \subseteq {RowAt(p) : p \in 1..count}
        /\ Cardinality(Range(reservoir)) = Len(reservoir)
        /\ (count >= target_size /\ count < N) =>
              \A index \in 0..count :
                  ENABLED (RandomRow /\ reservoir' =
                              IF index < target_size
                              THEN [reservoir EXCEPT ![index + 1] = RowAt(count + 1)]
                              ELSE reservoir)
\* A row of the fill phase is appended; a row with 0-based index count >=
\* target_rows replaces the slot at a draw of 0..count when the draw is below
\* target_rows and is dropped otherwise.
C17_Row ==
    (pc = "random" /\ count' = count + 1) =>
        IF count < target_size
        THEN reservoir' = Append(reservoir, RowAt(count + 1))
        ELSE \E index \in 0..count :
                reservoir' = IF index < target_size
                             THEN [reservoir EXCEPT ![index + 1] = RowAt(count + 1)]
                             ELSE reservoir
\* The reservoir is emitted in slot order, which is the arrival order of all
\* rows when N <= target_rows.
C17_Emit ==
    (pc = "random" /\ pc' # "random") =>
        LET emitted == IF pc' = "done" THEN out' ELSE upstream' IN
        /\ count = N
        /\ emitted = reservoir
        /\ N <= target_size => emitted = upstream

\* C17: the random sampler is Algorithm R.
C17_AlgorithmR == []C17_Reservoir /\ [][C17_Row /\ C17_Emit]_vars
C17_Witness ==
    /\ Mode = "random"
    /\ Done
    /\ N = 4
    /\ target_size = 3
    /\ out = <<1, 4, 3>>

\* C18: when the stratified sampler finishes, it has yielded target_rows rows
\* or every stratum has contributed min(|stratum|, max_per_category) rows,
\* also when rows of a stratum have the same contents.
MaxPerStratum ==
    LET C == Cardinality(StrataKeys)
        min_per == Max(1, config.target_rows \div (C * 2))
    IN Max(min_per, config.target_rows \div Max(1, C \div 2))
C18_TargetOrStrataExhausted ==
    (Done /\ Mode = "stratified") =>
        \/ Len(out) = config.target_rows
        \/ \A key \in StrataKeys :
              Cardinality(Range(out) \cap Stratum(key))
                 = Min(Cardinality(Stratum(key)), MaxPerStratum)

\* C19: over N > target_rows rows, N >= 3, the time-aware sampler yields from
\* the first N div 3 rows in timestamp order, the next N div 3 and the rest
\* min(T div 3 + [T mod 3 >= 1], |early|), min(T div 3 + [T mod 3 >= 2],
\* |middle|) and min(T div 3, |late|) rows: the leftover of T div 3 is handed
\* out once.
\* The number of yielded rows of each third.
YieldedOfThird(i) ==
    LET third == ThirdOf
    IN Cardinality({q \in 1..N : upstream[q] \in Range(out) /\ third[q] = i})
SizeOfThird(i) == IF i = 3 THEN N - 2 * (N \div 3) ELSE N \div 3
PositionOf(id) == CHOOSE p \in 1..N : upstream[p] = id
C20_AllRowsInTimestampOrder ==
    (Done /\ Mode = "time_aware" /\ N <= config.target_rows) =>
        /\ Len(out) = N
        /\ Range(out) = Range(upstream)
        /\ \A i, j \in 1..Len(out) :
              i < j =>
                 LET p == PositionOf(out[i])
                     q == PositionOf(out[j])
                 IN /\ ~FloatLess(Ts(q), Ts(p))
                    /\ (~Ts(p).nan /\ ~Ts(q).nan /\ Ts(p).val = Ts(q).val) => p < q
        /\ config.key_columns = <<>> => out = upstream

\* C21: two rows are grouped into the same stratum exactly when they carry
\* the same tuple of values on the key columns.
KeyTuple(id) == [n \in DOMAIN config.key_columns |-> input[id][config.key_columns[n]]]
SameStratum(i, j) ==
    \E c \in DOMAIN category_rows :
        i \in Range(category_rows[c].rows) /\ j \in Range(category_rows[c].rows)
C21_StratumIsKeyTuple ==
    (Mode = "stratified" /\ category_rows # <<>>) =>
        \A i, j \in Range(upstream) : SameStratum(i, j) <=> KeyTuple(i) = KeyTuple(j)

\* C22: the composite chain with target_rows >= 3 over more rows than that
\* yields a row of each third of the input sequence (the first N div 3 rows,
\* the next N div 3, the rest).
InputThird(id) ==
    IF id <= Len(input) \div 3 THEN 1
    ELSE IF id <= 2 * (Len(input) \div 3) THEN 2
    ELSE 3
C22_CompositeEachThird ==
    (Done /\ Mode = "composite" /\ config.target_rows >= 3 /\ Len(input) > config.target_rows)
        => {InputThird(id) : id \in Range(out)} = {1, 2, 3}

\* C23: over two strata of at least 2 rows each, with a target that gives
\* the first pass one row of each stratum (min_per_category = 1) and leaves
\* the second pass at least 2 slots, the stratified sampler yields at least 2
\* rows of either stratum.
C23_TwoOfEachStratum ==
    (Done /\ Mode = "stratified" /\ Cardinality(StrataKeys) = 2
        /\ config.target_rows \div 4 = 1
        /\ \A key \in StrataKeys : Cardinality(Stratum(key)) >= 2)
        => \A key \in StrataKeys : Cardinality(Range(out) \cap Stratum(key)) >= 2

\* C24: infer_column_type(values, sample_size) returns a most frequent tag of
\* the first sample_size values that are not None, and "unknown" only when no
\* value is not None.
FirstNotNone(values, sample_size) == Prefix(SelectSeq(values, NotNone), sample_size)
ModalTags(values) ==
    {infer_type(values[i]) : i \in
        {i \in DOMAIN values : \A j \in DOMAIN values :
            TagCount(values, infer_type(values[j])) <= TagCount(values, infer_type(values[i]))}}
C24_ModalTagOfFirstNotNone ==
    [][\A sample_size \in 1..MaxSampleSize :
          InferColumnType(sample_size) =>
             LET considered == FirstNotNone(ValuesOf(input), sample_size)
                 type_guess == stats'.by_column["v"].type_guess
             IN IF considered = <<>> THEN type_guess = "unknown"
                ELSE type_guess \in ModalTags(considered)]_vars

\* C25: get_columns() called before any row is read returns the flattened keys
\* of the first valid record of the file, whatever blank or invalid lines come
\* before it, and the reader holds the same list once read_rows() has run to
\* the end.
FirstRecordColumns ==
    LET valid == {i \in DOMAIN input : Yields(input[i])} IN
    IF valid = {} THEN <<>>
    ELSE LET first == CHOOSE i \in valid : \A j \in valid : i <= j
         IN _flatten_keys(RowOfValue(json_loads(StrippedLine(input[first])).value).items, "")
C25_ColumnsOfFirstValidRecord ==
    /\ [][(reader.pos = 0 /\ ~reader.exhausted /\ JSONLGetColumns)
             => reader'.columns = FirstRecordColumns]_vars
    /\ [](reader.exhausted => reader.columns = FirstRecordColumns)

\* C26: no sampler emits the input row of one arrival position more than once,
\* whatever the strategy and the RNG's draws, rows of identical content
\* included.
C26_NoRowEmittedTwice == \A i, j \in DOMAIN out : i # j => out[i] # out[j]
C26_Witness ==
    /\ Done
    /\ Mode \in {"outlier_aware", "composite"}
    /\ Len(input) > config.target_rows
    /\ \E i, j \in DOMAIN out : i # j /\ input[out[i]] = input[out[j]]

\* The columns the privacy rules name that the statistics cover, the values
\* the manifest's column_stats show for a column (min_value, max_value and the
\* keys of top_values), and the values the column had in the rows the sampler
\* emitted, before and after the rules.
RuleColumns ==
    {config.privacy_rules[n].column : n \in DOMAIN config.privacy_rules}
        \cap DOMAIN stats.by_column
ManifestShowsStats ==
    /\ manifest.written
    /\ "column_stats" \in manifest.keys
    /\ config.privacy_rules # <<>>
ShownValues(c) ==
    (DOMAIN stats.by_column[c].top_values
        \cup {stats.by_column[c].min_value, stats.by_column[c].max_value}) \ {Null}
OriginalValues(c) == {input[out[i]][c] : i \in 1..row_count} \ {Null}
MaskedValues(c) ==
    {apply_privacy_rules(input[out[i]], config.privacy_rules).row[c] : i \in 1..row_count}

\* C27 as stated: with privacy rules, the manifest's column statistics show no
\* original value of a column a rule names.
C27_NoOriginalValueInStats ==
    ManifestShowsStats => \A c \in RuleColumns : ShownValues(c) \cap OriginalValues(c) = {}
\* C27: with privacy rules, the rows buffered for the statistics are the masked
\* rows that were written, and every value the manifest's column statistics
\* show for a column a rule names is a value the rules produced for it.
C27_StatsShowMaskedValues ==
    /\ (fpc \in {"loop", "stats", "manifest", "returned"}) => sampled_rows_list = output.rows
    /\ ManifestShowsStats => \A c \in RuleColumns : ShownValues(c) \subseteq MaskedValues(c)
C27_Witness ==
    /\ ManifestShowsStats
    /\ \E c \in RuleColumns :
          /\ ShownValues(c) # {}
          /\ OriginalValues(c) # {}
          /\ ShownValues(c) \cap OriginalValues(c) = {}

\* C28: in the composite chain outlier-aware, time-aware, random, the second
\* and the third sampler receive at most target_rows rows and hand on every one
\* of them, so the chain yields exactly the rows the outlier-aware sampler
\* chose, min(target_rows, N) of them.
C28_LaterStagesPassAll ==
    /\ [](Mode = "composite" =>
            /\ stage >= 2 => Len(upstream) = Min(config.target_rows, Len(input))
            /\ Done => /\ Range(out) = Range(upstream)
                       /\ Len(out) = Len(upstream))
    /\ [][(Mode = "composite" /\ stage = 2 /\ stage' = 3) =>
             /\ Range(upstream') = Range(upstream)
             /\ Len(upstream') = Len(upstream)]_vars
C28_Witness ==
    /\ Mode = "composite"
    /\ Done
    /\ Len(input) > config.target_rows
    /\ config.target_rows >= 2
    /\ Len(out) = config.target_rows
    /\ Range(out) = Range(upstream)

\* C29: the stratified sampler yields from no stratum more than
\* max(max(1, T div 2C), T div max(1, C div 2)) rows, whatever the RNG draws.
YieldedOf(key) == Cardinality({p \in DOMAIN out : KeyOf(out[p]) = key})
C29_AtMostMaxPerStratum ==
    (Done /\ Mode = "stratified") => \A key \in StrataKeys : YieldedOf(key) <= MaxPerStratum
C29_Witness ==
    /\ Done
    /\ Mode = "stratified"
    /\ Len(out) < config.target_rows
    /\ \E key \in StrataKeys :
          /\ Cardinality(Stratum(key)) > MaxPerStratum
          /\ YieldedOf(key) = MaxPerStratum

\* C30: sample_file writes the manifest only from the step after the sampling
\* loop, with every yielded row written, no error and the reader and the
\* writer closed; once an exception has left sample_file there is never a
\* manifest nor a returned SampleResult; and a written manifest's actual_rows
\* is the number of rows in the output and the returned row_count.
C30_ManifestAfterCleanLoop ==
    /\ [][(~manifest.written /\ manifest'.written) =>
             /\ fpc = "manifest"
             /\ row_count = Len(out)
             /\ error = ""
             /\ ~reader.open
             /\ ~writer.open]_vars
    /\ [](fpc = "raised" => [](~manifest.written /\ ~result.returned))
    /\ [](manifest.written =>
             /\ manifest.actual_rows = Len(output.rows)
             /\ result.returned
             /\ result.row_count = manifest.actual_rows)
C30_Witness ==
    /\ manifest.written
    /\ manifest.actual_rows = 1
    /\ Len(output.rows) = 1
    /\ config.privacy_rules # <<>>
    /\ Len(input) = 2

====
